---- MODULE Spec2Model ----
(***************************************************************************)
(* Model of ddparser/parser/data_struct/utils.py: the length bucketer      *)
(* (kmeans), the Eisner decoder (eisner) and the projective-tree validator *)
(* (DepTree / istree).                                                     *)
(*                                                                         *)
(* Arrays are functions over 0..n-1, as in the source (0-based indices).   *)
(***************************************************************************)
EXTENDS Integers, Sequences, FiniteSets, TLC

VARIABLES
    \* ---- tree validator (DepTree / istree)
    sequence,   \* the caller's head array, the argument of istree
    sentence,   \* DepTree.sentence, the private copy with entry 0 set to -1
    lefts,      \* NODE.lefts of every node, ascending
    rights,     \* NODE.rights of every node, ascending
    visit,      \* DepTree.visit
    results,    \* what each judge_legal call on this DepTree returned, in order
    tpc,        \* "start", "built" (constructor returned), "raised" (IndexError)
    \* ---- Eisner decoder (eisner)
    scores,     \* scores[b][d][h]: score of h being the head of d in sentence b
    mask,       \* mask[b][j]: position j of sentence b is a real token
    padded,     \* scores with every entry touching a padding position replaced
    predicts,   \* eisner(scores, mask), one row per sentence
    predicts2,  \* eisner(padded, mask)
    epc,        \* "start", "done"
    \* ---- length bucketer (kmeans)
    km_x,       \* the sentence lengths, the first argument; <<>> before the call
    kreq,       \* the requested number of clusters, the second argument
    km_k,       \* k after line 72
    km_d,       \* the distinct lengths, ascending
    indices,    \* indices[j]: the position of x[j] in d
    km_f,       \* f[i]: how many sentences have length d[i]
    km_c,       \* the centroids, as pairs <<p, q>> of value fl(p/q)
    old,        \* the centroids of the iteration before, None at first
    km_y,       \* y[j]: the cluster of d[j] after the last (re-)assignment
    kmask,      \* kmask[i]: the members of cluster i after the last repair pass
    moved,      \* the points the repair passes of this call re-labelled
    centroids,  \* returned centroids
    clusters,   \* returned clusters, lists of indices into x
    kpc         \* "start", "loop", "done"

treeVars == <<sequence, sentence, lefts, rights, visit, results, tpc>>
eisnerVars == <<scores, mask, padded, predicts, predicts2, epc>>

kmeansVars == <<km_x, kreq, km_k, km_d, indices, km_f, km_c, old, km_y, kmask,
                moved, centroids, clusters, kpc>>

vars == <<treeVars, eisnerVars, kmeansVars>>

(***************************************************************************)
(* Bounds                                                                  *)
(***************************************************************************)
MaxNodes == 5      \* head arrays have 2..MaxNodes entries (root + tokens)
NegHeads == 1      \* head entries range over -NegHeads .. len(heads)
MaxCalls == 2      \* judge_legal calls made on one DepTree
SeqLen == 4        \* seq_len: positions 0..SeqLen-1 (root + tokens + padding)
BatchSize == 2     \* sentences in a batch
MaxScore == 1      \* arc scores range over 0..MaxScore
PadMag == 3        \* padding entries are overwritten by -PadMag or PadMag
MaxFreq == 2       \* at most MaxFreq sentences share one length
MaxK == 3          \* kmeans is asked for 1..MaxK clusters

\* the sentence lengths: neighbours (1, 2 and 5, 6) and gaps of several
\* sizes, so that ties of distances and rounded quotients such as 5/3 occur
Lengths == {1, 2, 5, 6, 8}
MaxLen == CHOOSE v \in Lengths : \A w \in Lengths : w <= v

(***************************************************************************)
(* Generic helpers                                                         *)
(***************************************************************************)
RECURSIVE SortedInsert(_, _)
\* sorted(lst + [v]) for an ascending list lst (utils.py:211, 213)
SortedInsert(lst, v) ==
    IF lst = <<>> THEN <<v>>
    ELSE IF v < Head(lst) THEN <<v>> \o lst
    ELSE <<Head(lst)>> \o SortedInsert(Tail(lst), v)

(***************************************************************************)
(* Tree validator                                                          *)
(***************************************************************************)
\* Python list indexing nodes[p] on a list of n elements: an index below -n
\* or above n-1 raises IndexError; a negative one counts from the end.
PyIndexOk(p, n) == p >= -n /\ p < n
PyIndex(p, n) == IF p < 0 THEN p + n ELSE p

\* DepTree.__init__ lines 192-194: deep copy, then sentence[0] = -1
CopySentence(seq) == [i \in DOMAIN seq |-> IF i = 0 THEN -1 ELSE seq[i]]

\* build_tree raises iff some nodes[node.parent] is out of range
BuildRaises(sent) ==
    \E i \in DOMAIN sent : i >= 1 /\ ~PyIndexOk(sent[i], Cardinality(DOMAIN sent))

\* DepTree.add(parent, child) on the pair of child tables
Add(tabs, parent, child) ==
    IF parent < child
    THEN [tabs EXCEPT !.rights[parent] = SortedInsert(@, child)]
    ELSE [tabs EXCEPT !.lefts[parent] = SortedInsert(@, child)]

RECURSIVE BuildFrom(_, _, _)
\* the loop of build_tree over self.nodes[1:], child ids ascending
BuildFrom(sent, tabs, child) ==
    IF child >= Cardinality(DOMAIN sent) THEN tabs
    ELSE BuildFrom(sent,
                   Add(tabs, PyIndex(sent[child], Cardinality(DOMAIN sent)), child),
                   child + 1)

BuildTree(sent) ==
    BuildFrom(sent,
              [lefts |-> [i \in DOMAIN sent |-> <<>>],
               rights |-> [i \in DOMAIN sent |-> <<>>]],
              1)

RECURSIVE InorderTraversal(_, _, _)
RECURSIVE TraverseList(_, _, _, _)
\* inorder_traversal(node) with the visit marks threaded through: the
\* result is [seq |-> the returned list, visit |-> self.visit afterwards]
InorderTraversal(tabs, vis, node) ==
    IF vis[node] THEN [seq |-> <<>>, visit |-> vis]
    ELSE LET v1 == [vis EXCEPT ![node] = TRUE]
             lf == TraverseList(tabs, v1, tabs.lefts[node], 1)
             rf == TraverseList(tabs, lf.visit, tabs.rights[node], 1)
         IN  [seq |-> lf.seq \o <<node>> \o rf.seq, visit |-> rf.visit]

\* "for ln in ids: lst += self.inorder_traversal(self.nodes[ln])"
TraverseList(tabs, vis, ids, i) ==
    IF i > Len(ids) THEN [seq |-> <<>>, visit |-> vis]
    ELSE LET one == InorderTraversal(tabs, vis, ids[i])
             rest == TraverseList(tabs, one.visit, ids, i + 1)
         IN  [seq |-> one.seq \o rest.seq, visit |-> rest.visit]

\* judge_legal without the root-degree test of lines 218-219
JudgeLegalNoRootCheck(tabs, vis) ==
    LET n == Cardinality(DOMAIN vis)
        target_seq == [i \in 1..n |-> i - 1]
        t == InorderTraversal(tabs, vis, 0)
    IN  [ret |-> (target_seq = t.seq), visit |-> t.visit]

\* judge_legal: [ret |-> the boolean returned, visit |-> self.visit afterwards]
JudgeLegal(tabs, vis) ==
    LET n == Cardinality(DOMAIN vis)
        target_seq == [i \in 1..n |-> i - 1]
    IN  IF Len(tabs.lefts[0] \o tabs.rights[0]) # 1
        THEN [ret |-> FALSE, visit |-> vis]
        ELSE LET t == InorderTraversal(tabs, vis, 0)
             IN  [ret |-> (target_seq = t.seq), visit |-> t.visit]

\* istree(sequence): "raised" when the constructor raises, else the boolean
IsTree(seq) ==
    LET sent == CopySentence(seq)
    IN  IF BuildRaises(sent) THEN "raised"
        ELSE JudgeLegal(BuildTree(sent),
                        [i \in DOMAIN sent |-> FALSE]).ret

(***************************************************************************)
(* Eisner decoder                                                          *)
(*                                                                         *)
(* The numpy code carries the batch as the last axis of every table and    *)
(* every operation on it is elementwise along that axis, so the tables     *)
(* here are those of one sentence and the batch is a map over sentences.   *)
(* A table is a function on pairs <<row, column>>.                         *)
(***************************************************************************)
Pos == 0..(SeqLen - 1)

\* the identity on functions; TLC tabulates f instead of re-evaluating its
\* defining expression at every application
Tab(f) == f @@ <<>>

\* float('-inf') (lines 118, 120, 162): below every finite span score; Plus
\* keeps it absorbing, as IEEE addition does for finite scores
NegInf == -1000000

Plus(a, b) == IF a = NegInf \/ b = NegInf THEN NegInf ELSE a + b

\* lens = mask.sum(1) (line 114), for one sentence
Lens(m) == Cardinality({j \in DOMAIN m : m[j]})

\* scores.transpose(2, 1, 0) (line 116) for one sentence: <<h, d>> |-> scores[d][h]
Transpose(sc) == Tab([ij \in Pos \X Pos |-> sc[ij[2]][ij[1]]])

\* nn.stripe(x, n, w, offset, dim): entry [i][k] of the diagonal stripe is
\* x[offset[0] + i + k, offset[1] + i] for dim = 0 and
\* x[offset[0] + i, offset[1] + i + k] for dim = 1
Stripe(tab, n, w, off, dim) ==
    [i \in 0..(n-1) |-> [k \in 0..(w-1) |->
        IF dim = 0 THEN tab[<<off[1] + i + k, off[2] + i>>]
                   ELSE tab[<<off[1] + i, off[2] + i + k>>]]]

\* x.diagonal(offset) of a square table
Diagonal(tab, n, offset) ==
    [i \in 0..(n-1) |-> IF offset >= 0 THEN tab[<<i, i + offset>>]
                                       ELSE tab[<<i - offset, i>>]]

\* nn.fill_diagonal(x, value, offset): the offset-th diagonal is overwritten
FillDiagonal(tab, value, offset) ==
    Tab([ij \in DOMAIN tab |->
            IF ij[2] - ij[1] = offset
            THEN value[IF offset >= 0 THEN ij[1] ELSE ij[2]]
            ELSE tab[ij]])

\* row.max(-1) and row.argmax(-1): the first maximum
RowMax(row, w) == CHOOSE v \in {row[k] : k \in 0..(w-1)} :
                      \A k \in 0..(w-1) : row[k] <= v
ArgMax(row, w) == CHOOSE k \in 0..(w-1) :
                      /\ row[k] = RowMax(row, w)
                      /\ \A k2 \in 0..(k-1) : row[k2] < row[k]

\* line 162 with the comparison dropped: the full-span score is never invalidated
MaskRootSpanNever(s_c, w, len) == s_c

\* line 162: s_c[0, w][lens != w] = -inf
MaskRootSpan(s_c, w, len) ==
    IF len # w THEN [s_c EXCEPT ![<<0, w>>] = NegInf] ELSE s_c

\* the incomplete spans of width w with the arc score of the wrong direction
IncompleteSwapped(T, st, w) ==
    LET n == SeqLen - w
        a == Stripe(T.s_c, n, w, <<0, 0>>, 1)
        b == Stripe(T.s_c, n, w, <<w, 1>>, 1)
        ilr == Tab([i \in 0..(n-1) |-> Tab([k \in 0..(w-1) |-> Plus(a[i][k], b[i][k])])])
        dl == Diagonal(st, n, w)
        dr == Diagonal(st, n, -w)
        il == Tab([i \in 0..(n-1) |-> Tab([k \in 0..(w-1) |-> Plus(ilr[i][k], dl[i])])])
        ir == Tab([i \in 0..(n-1) |-> Tab([k \in 0..(w-1) |-> Plus(ilr[i][k], dr[i])])])
        s_i1 == FillDiagonal(T.s_i, Tab([i \in 0..(n-1) |-> RowMax(il[i], w)]), -w)
        p_i1 == FillDiagonal(T.p_i, Tab([i \in 0..(n-1) |-> ArgMax(il[i], w) + i]), -w)
    IN  [T EXCEPT
            !.s_i = FillDiagonal(s_i1, Tab([i \in 0..(n-1) |-> RowMax(ir[i], w)]), w),
            !.p_i = FillDiagonal(p_i1, Tab([i \in 0..(n-1) |-> ArgMax(ir[i], w) + i]), w)]

\* lines 131-148: the incomplete spans of width w, both directions
Incomplete(T, st, w) ==
    LET n == SeqLen - w
        \* ilr = C(i->r) + C(j->r+1)
        a == Stripe(T.s_c, n, w, <<0, 0>>, 1)
        b == Stripe(T.s_c, n, w, <<w, 1>>, 1)
        ilr == Tab([i \in 0..(n-1) |-> Tab([k \in 0..(w-1) |-> Plus(a[i][k], b[i][k])])])
        dl == Diagonal(st, n, -w)
        dr == Diagonal(st, n, w)
        il == Tab([i \in 0..(n-1) |-> Tab([k \in 0..(w-1) |-> Plus(ilr[i][k], dl[i])])])
        ir == Tab([i \in 0..(n-1) |-> Tab([k \in 0..(w-1) |-> Plus(ilr[i][k], dr[i])])])
        s_i1 == FillDiagonal(T.s_i, Tab([i \in 0..(n-1) |-> RowMax(il[i], w)]), -w)
        p_i1 == FillDiagonal(T.p_i, Tab([i \in 0..(n-1) |-> ArgMax(il[i], w) + i]), -w)
    IN  [T EXCEPT
            !.s_i = FillDiagonal(s_i1, Tab([i \in 0..(n-1) |-> RowMax(ir[i], w)]), w),
            !.p_i = FillDiagonal(p_i1, Tab([i \in 0..(n-1) |-> ArgMax(ir[i], w) + i]), w)]

\* lines 150-163: the complete spans of width w, both directions
Complete(T, w, len) ==
    LET n == SeqLen - w
        \* C(j->i) = max(C(r->i) + I(j->r)), i <= r < j
        la == Stripe(T.s_c, n, w, <<0, 0>>, 0)
        lb == Stripe(T.s_i, n, w, <<w, 0>>, 1)
        cl == Tab([i \in 0..(n-1) |-> Tab([k \in 0..(w-1) |-> Plus(la[i][k], lb[i][k])])])
        s_c1 == FillDiagonal(T.s_c, Tab([i \in 0..(n-1) |-> RowMax(cl[i], w)]), -w)
        p_c1 == FillDiagonal(T.p_c, Tab([i \in 0..(n-1) |-> ArgMax(cl[i], w) + i]), -w)
        \* C(i->j) = max(I(i->r) + C(r->j)), i < r <= j
        ra == Stripe(T.s_i, n, w, <<0, 1>>, 1)
        rb == Stripe(s_c1, n, w, <<1, w>>, 0)
        cr == Tab([i \in 0..(n-1) |-> Tab([k \in 0..(w-1) |-> Plus(ra[i][k], rb[i][k])])])
        s_c2 == FillDiagonal(s_c1, Tab([i \in 0..(n-1) |-> RowMax(cr[i], w)]), w)
    IN  [T EXCEPT
            !.s_c = MaskRootSpan(s_c2, w, len),
            !.p_c = FillDiagonal(p_c1, Tab([i \in 0..(n-1) |-> ArgMax(cr[i], w) + i + 1]), w)]

RECURSIVE FillFrom(_, _, _, _)
\* the loop "for w in range(1, seq_len)" (line 130) from width w on
FillFrom(T, st, w, len) ==
    IF w >= SeqLen THEN T
    ELSE FillFrom(Complete(Incomplete(T, st, w), w, len), st, w + 1, len)

\* lines 118-126: the tables before the loop
InitTables ==
    [s_i |-> [ij \in Pos \X Pos |-> NegInf],
     s_c |-> [ij \in Pos \X Pos |-> IF ij[1] = ij[2] THEN 0 ELSE NegInf],
     p_i |-> [ij \in Pos \X Pos |-> 0],
     p_c |-> [ij \in Pos \X Pos |-> 0]]

RECURSIVE Backtrack(_, _, _, _, _, _)
\* nn.backtrack(p_i, p_c, heads, i, j, complete); the result is heads afterwards
Backtrack(p_i, p_c, heads, i, j, complete) ==
    IF i = j THEN heads
    ELSE IF complete
    THEN LET r == p_c[<<i, j>>]
             h1 == Backtrack(p_i, p_c, heads, i, r, FALSE)
         IN  Backtrack(p_i, p_c, h1, r, j, TRUE)
    ELSE LET r == p_i[<<i, j>>]
             h0 == [heads EXCEPT ![j] = i]
             lo == IF i < j THEN i ELSE j
             hi == IF i < j THEN j ELSE i
             h1 == Backtrack(p_i, p_c, h0, lo, r, TRUE)
         IN  Backtrack(p_i, p_c, h1, hi, r + 1, TRUE)

\* the value nn.pad_sequence writes beyond a sentence's heads
PadValue == 1

\* nn.pad_sequence(predicts, fix_len=seq_len), for one row
PadSequence(heads) ==
    [j \in Pos |-> IF j \in DOMAIN heads THEN heads[j] ELSE PadValue]

\* backtracking from the widest span instead of the sentence's own
HeadsFullSpan(T, len) ==
    Backtrack(T.p_i, T.p_c, [j \in Pos |-> 1], 0, SeqLen - 1, TRUE)

\* lines 168-171 for one sentence: heads = ones(length + 1), then backtrack
Heads(T, len) ==
    Backtrack(T.p_i, T.p_c, [j \in 0..len |-> 1], 0, len, TRUE)

\* eisner(scores, mask)
Eisner(sc, m) ==
    [b \in DOMAIN sc |->
        PadSequence(Heads(FillFrom(InitTables, Transpose(sc[b]), 1, Lens(m[b])),
                          Lens(m[b])))]

(***************************************************************************)
(* Length bucketer (kmeans)                                                *)
(*                                                                         *)
(* The centroids are float64 quotients of exact integers.  A centroid is   *)
(* kept as the pair <<p, q>> of the two integers the code divides (the     *)
(* sum of the lengths of the cluster and the number of its sentences);     *)
(* its float64 value is the nearest double fl(p/q).  Distances are         *)
(* compared as the code compares them, on fl(|d - fl(p/q)|): the rounding  *)
(* errors are computed exactly with modular arithmetic (Err below), so     *)
(* that a tie of the exact distances is broken the way IEEE-754 rounding   *)
(* breaks it.  <<0, 0>> is nan, the quotient 0/0 of an empty cluster.      *)
(***************************************************************************)
Min(a, b) == IF a < b THEN a ELSE b
Abs(a) == IF a < 0 THEN -a ELSE a

RECURSIVE Pow2(_)
Pow2(e) == IF e = 0 THEN 1 ELSE 2 * Pow2(e - 1)

RECURSIVE Pow2Mod(_, _)
\* 2^e mod m
Pow2Mod(e, m) == IF e = 0 THEN 1 % m ELSE (2 * Pow2Mod(e - 1, m)) % m

RECURSIVE FloorLog2From(_, _, _)
FloorLog2From(num, den, e) ==
    IF den * Pow2(e + 1) <= num THEN FloorLog2From(num, den, e + 1) ELSE e

\* floor(log2(num/den)) for num/den >= 1
FloorLog2(num, den) == FloorLog2From(num, den, 0)

\* significand bits of a float64 after the leading one
MantissaBits == 52

\* old before the first iteration (line 67)
None == <<>>

Nan == <<0, 0>>
IsNan(cv) == cv[2] = 0

\* the binary exponent of the grid on which fl(p/q) lies: fl(p/q) is a
\* multiple of 2^-Scale(cv)
Scale(cv) == MantissaBits - FloorLog2(cv[1], cv[2])

\* q * 2^s * (fl(p/q) - p/q): the division's rounding error, to nearest
DivErr(cv) ==
    LET q == cv[2]
        R == (cv[1] * Pow2Mod(Scale(cv), q)) % q
    IN  IF 2 * R < q THEN -R ELSE q - R

\* q * 2^s * (fl(|dv - fl(p/q)|) - |dv - p/q|): the error of the float64
\* distance of point dv to centroid cv against the exact distance; the
\* subtraction rounds (to nearest, ties to even) only when the difference
\* lies in a higher binade than the centroid
Err(dv, cv) ==
    LET p == cv[1]
        q == cv[2]
        s == Scale(cv)
        un == Abs(dv * q - p)
        a == IF dv * q > p THEN -DivErr(cv) ELSE DivErr(cv)
    IN  IF un = 0 THEN 0
        ELSE IF un < q THEN a
        ELSE LET g == FloorLog2(un, q) - FloorLog2(p, q)
             IN  IF g <= 0 THEN a
                 ELSE LET M == q * Pow2(g + 1)
                          Tm == ((((un % M) * Pow2Mod(s, M)) + a) % M) \div q
                          low == Tm % Pow2(g)
                          bit == Tm \div Pow2(g)
                          half == Pow2(g - 1)
                          adj == IF low < half \/ (low = half /\ bit = 0)
                                 THEN -low ELSE Pow2(g) - low
                      IN  a + q * adj

\* the largest sum and the largest count a cluster can have
MaxSum == MaxLen * MaxFreq * Cardinality(Lengths)
MaxCount == MaxFreq * Cardinality(Lengths)

\* Err, computed once for every point and every quotient
ErrTable ==
    Tab([dv \in Lengths |->
            Tab([p \in 0..MaxSum |->
                    Tab([q \in 1..MaxCount |-> Err(dv, <<p, q>>)])])])

\* fl(|d1 - fl(c1)|) < fl(|d2 - fl(c2)|), for centroids that are not nan
DistLess(d1, c1, d2, c2) ==
    LET u1 == Abs(d1 * c1[2] - c1[1]) * c2[2]
        u2 == Abs(d2 * c2[2] - c2[1]) * c1[2]
    IN  IF u1 # u2 THEN u1 < u2
        ELSE LET m == Min(Scale(c1), Scale(c2))
             IN  ErrTable[d1][c1[1]][c1[2]] * c2[2] * Pow2(Scale(c2) - m)
                     < ErrTable[d2][c2[1]][c2[2]] * c1[2] * Pow2(Scale(c1) - m)

\* np.argmin over the centroids for point dv: the first minimum; a nan
\* distance counts as the minimum
Nearest(dv, c) ==
    LET K == DOMAIN c
        nans == {i \in K : IsNan(c[i])}
    IN  IF nans # {} THEN CHOOSE i \in nans : \A i2 \in nans : i <= i2
        ELSE CHOOSE i \in K :
                /\ \A i2 \in K : i2 < i => DistLess(dv, c[i], dv, c[i2])
                /\ \A i2 \in K : i2 > i => ~DistLess(dv, c[i2], dv, c[i])

\* lines 69-70 and 90-91: y = dists_abs.argmin(axis=-1)
Assign(d, c) == [j \in DOMAIN d |-> Nearest(d[j], c)]

RECURSIVE SortedSeq(_)
\* the elements of a finite set of integers, ascending
SortedSeq(S) ==
    IF S = {} THEN <<>>
    ELSE LET lo == CHOOSE v \in S : \A w \in S : v <= w
         IN  <<lo>> \o SortedSeq(S \ {lo})

RECURSIVE Ascending(_, _, _)
\* the elements of S that lie in lo..hi, ascending
Ascending(S, lo, hi) ==
    IF lo > hi THEN <<>>
    ELSE (IF lo \in S THEN <<lo>> ELSE <<>>) \o Ascending(S, lo + 1, hi)

\* a sequence as a 0-based array
Array(s) == [i \in 0..(Len(s) - 1) |-> s[i + 1]]

\* np.unique(x, return_inverse=True, return_counts=True), line 63
UniqueD(x) == Array(SortedSeq({x[j] : j \in DOMAIN x}))
UniqueIndices(x) ==
    [j \in DOMAIN x |-> CHOOSE i \in DOMAIN UniqueD(x) : UniqueD(x)[i] = x[j]]
UniqueF(x) ==
    [i \in DOMAIN UniqueD(x) |-> Cardinality({j \in DOMAIN x : x[j] = UniqueD(x)[i]})]

\* the members of cluster i, ascending: mask[i].nonzero()[0]
Members(y, i) == {j \in DOMAIN y : y[j] = i}

\* lens.argmax(): the first cluster with the most distinct values (lines 81-83)
Biggest(y, kk) ==
    CHOOSE b \in 0..(kk-1) :
        /\ \A b2 \in 0..(kk-1) : Cardinality(Members(y, b2)) <= Cardinality(Members(y, b))
        /\ \A b2 \in 0..(b-1) : Cardinality(Members(y, b2)) < Cardinality(Members(y, b))

\* biggest[dists[biggest].argmax()] (lines 83-85): the first member of
\* cluster b whose distance to its nearest centroid is the largest; dists
\* is the one of the last assignment, near[j] the centroid it was taken to
Farthest(d, c, near, y, b) ==
    LET mem == Members(y, b)
        nans == {j \in mem : IsNan(c[near[j]])}
    IN  IF nans # {} THEN CHOOSE j \in nans : \A j2 \in nans : j <= j2
        ELSE CHOOSE j \in mem :
                /\ \A j2 \in mem : j2 < j => DistLess(d[j2], c[near[j2]], d[j], c[near[j]])
                /\ \A j2 \in mem : j2 > j => ~DistLess(d[j], c[near[j]], d[j2], c[near[j2]])

\* no repair pass: empty clusters stay empty
RepairNone(d, c, near, y, i, kk) == y

RECURSIVE Repair(_, _, _, _, _, _)
\* lines 78-85: the repair pass over clusters i..kk-1; near is the
\* assignment the pass started from
Repair(d, c, near, y, i, kk) ==
    IF i >= kk THEN y
    ELSE IF Members(y, i) # {} THEN Repair(d, c, near, y, i + 1, kk)
    ELSE Repair(d, c, near,
                [y EXCEPT ![Farthest(d, c, near, y, Biggest(y, kk))] = i],
                i + 1, kk)

RECURSIVE SumUpTo(_, _, _)
\* the sum of w[j] over the indices j <= n that are in S
SumUpTo(w, S, n) ==
    IF n < 0 THEN 0
    ELSE (IF n \in S THEN w[n] ELSE 0) + SumUpTo(w, S, n - 1)

\* .sum(-1) of a masked array: the sum of w[j] over the set S of indices
SumOver(w, S) == SumUpTo(w, S, Cardinality(DOMAIN w) - 1)

\* line 88: (total * mask).sum(-1) / (f * mask).sum(-1), total = d * f
Update(d, f, msk) ==
    [i \in DOMAIN msk |->
        <<SumOver([j \in DOMAIN d |-> d[j] * f[j]], msk[i]), SumOver(f, msk[i])>>]

\* np.equal(c, old).all() (line 74): p1/q1 = p2/q2; nan equals nothing
SameCentroids(c1, c2) ==
    \A i \in DOMAIN c1 :
        /\ ~IsNan(c1[i]) /\ ~IsNan(c2[i])
        /\ c1[i][1] * c2[i][2] = c2[i][1] * c1[i][2]

\* a convergence test that never succeeds
ConvergedNever(c1, c0) == FALSE

\* a convergence test that succeeds after the first update
ConvergedAfterFirst(c1, c0) == c0 # None

\* the negation of the loop condition of line 74
Converged(c1, c0) == c0 # None /\ SameCentroids(c1, c0)

\* np.unique(y).tolist(), line 94: the clusters that have members
Assigned(y, kk) == Ascending({y[j] : j \in DOMAIN y}, 0, kk - 1)

\* the distinct values of cluster a instead of the sentences that have them
ClusterOfValues(x, ind, y, a) ==
    Ascending({j \in DOMAIN y : y[j] = a}, 0, Cardinality(DOMAIN x) - 1)

\* np.equal(y[indices], a).nonzero()[0].tolist(), lines 94 and 98: the
\* sentences whose length was assigned to cluster a, ascending
ClusterOf(x, ind, y, a) ==
    Ascending({j \in DOMAIN x : y[ind[j]] = a}, 0, Cardinality(DOMAIN x) - 1)

HeadArrays ==
    UNION { [0..(n-1) -> (-NegHeads)..n] : n \in 2..MaxNodes }

\* the components share no state: the variables of the components that a
\* specification does not run stay at these values
TreeIdle ==
    /\ sequence = <<>> /\ sentence = <<>> /\ lefts = <<>> /\ rights = <<>>
    /\ visit = <<>> /\ results = <<>> /\ tpc = "idle"

KmeansIdle ==
    /\ km_x = <<>> /\ kreq = 0 /\ km_k = 0 /\ km_d = <<>> /\ indices = <<>> /\ km_f = <<>>
    /\ km_c = <<>> /\ old = None /\ km_y = <<>> /\ kmask = <<>> /\ moved = {}
    /\ centroids = <<>> /\ clusters = <<>> /\ kpc = "idle"

EisnerIdle ==
    /\ scores = <<>> /\ mask = <<>> /\ padded = <<>>
    /\ predicts = <<>> /\ predicts2 = <<>> /\ epc = "idle"

InitTree ==
    /\ sequence \in HeadArrays
    /\ sentence = <<>>
    /\ lefts = <<>>
    /\ rights = <<>>
    /\ visit = <<>>
    /\ results = <<>>
    /\ tpc = "start"
    /\ EisnerIdle
    /\ KmeansIdle

\* DepTree(sequence): __init__, lines 190-196
Construct ==
    /\ tpc = "start"
    /\ sentence' = CopySentence(sequence)
    /\ IF BuildRaises(sentence')
       THEN /\ tpc' = "raised"
            /\ UNCHANGED <<lefts, rights, visit>>
       ELSE /\ tpc' = "built"
            /\ lefts' = BuildTree(sentence').lefts
            /\ rights' = BuildTree(sentence').rights
            /\ visit' = [i \in DOMAIN sentence' |-> FALSE]
    /\ UNCHANGED <<sequence, results, eisnerVars, kmeansVars>>

\* one call of judge_legal on the DepTree built above
CallJudgeLegal ==
    /\ tpc = "built"
    /\ Len(results) < MaxCalls
    /\ LET r == JudgeLegal([lefts |-> lefts, rights |-> rights], visit)
       IN  /\ results' = Append(results, r.ret)
           /\ visit' = r.visit
    /\ UNCHANGED <<sequence, sentence, lefts, rights, tpc, eisnerVars, kmeansVars>>

NextTree == Construct \/ CallJudgeLegal

SpecTree == InitTree /\ [][NextTree]_vars

(***************************************************************************)
(* Reference notions for the validator claims, stated on the arcs          *)
(* heads[i] -> i and independent of the traversal above.                   *)
(***************************************************************************)
NumNodes(h) == Cardinality(DOMAIN h)

ValidHeads(h) == \A i \in DOMAIN h : i >= 1 => h[i] \in 0..(NumNodes(h) - 1)

RECURSIVE ReachesRoot(_, _, _)
\* following the heads from node i arrives at node 0 within fuel steps
ReachesRoot(h, i, fuel) ==
    IF i = 0 THEN TRUE
    ELSE IF fuel = 0 THEN FALSE
    ELSE ReachesRoot(h, h[i], fuel - 1)

RootedTree(h) == \A i \in DOMAIN h : ReachesRoot(h, i, NumNodes(h))

RootChildren(h) == {i \in DOMAIN h : i >= 1 /\ h[i] = 0}

ArcLo(h, i) == IF h[i] < i THEN h[i] ELSE i
ArcHi(h, i) == IF h[i] < i THEN i ELSE h[i]

Crossing(h, i, j) == ArcLo(h, i) < ArcLo(h, j) /\ ArcLo(h, j) < ArcHi(h, i)
                     /\ ArcHi(h, i) < ArcHi(h, j)

NoCrossing(h) ==
    \A i, j \in DOMAIN h : (i >= 1 /\ j >= 1) => ~Crossing(h, i, j)

ProjectiveTree(h) ==
    /\ RootedTree(h)
    /\ Cardinality(RootChildren(h)) = 1
    /\ NoCrossing(h)

(***************************************************************************)
(* Validator claims                                                        *)
(***************************************************************************)
\* C4: for a head array whose entries 1.. are valid indices, the constructor
\* does not raise and the first judge_legal call (istree) returns True
\* exactly when the arcs form a tree rooted at 0 with one root child and no
\* crossing arcs.
C4_ValidatorCorrect ==
    (tpc # "start" /\ ValidHeads(sequence)) =>
        /\ tpc = "built"
        /\ Len(results) >= 1 => (results[1] = ProjectiveTree(sequence))
        /\ IsTree(sequence) = ProjectiveTree(sequence)

\* a valid 5-node tree with one root child is rejected because arcs cross
C4_Witness ==
    /\ tpc = "built" /\ Len(results) = 1
    /\ ValidHeads(sequence) /\ NumNodes(sequence) = 5
    /\ RootedTree(sequence) /\ Cardinality(RootChildren(sequence)) = 1
    /\ ~NoCrossing(sequence)
    /\ results[1] = FALSE

\* C7: a head entry that is not a valid index (negative, or >= len) makes
\* istree fail with an error.
C7_InvalidHeadRaises ==
    (tpc # "start" /\ ~ValidHeads(sequence)) => tpc = "raised"

\* C10: every judge_legal call on one DepTree returns what the first call
\* returned.
C10_JudgeLegalRepeatable ==
    \A i \in 1..Len(results) : results[i] = results[1]

(***************************************************************************)
(* Decoder specification: a batch of BatchSize sentences over SeqLen       *)
(* positions.  Odd sentences carry a score matrix S, even ones the         *)
(* matrix MaxScore - S; every sentence has its own length 1..SeqLen-1.     *)
(* In S the arcs into the tokens are free, the arcs into the root (row 0)  *)
(* share one value and the main diagonal, which eisner never reads, is 0.  *)
(***************************************************************************)
TokenArcs == {ij \in Pos \X Pos : ij[1] >= 1 /\ ij[1] # ij[2]}

Matrix(g, r) ==
    [d \in Pos |-> [h \in Pos |->
        IF d = h THEN 0 ELSE IF d = 0 THEN r ELSE g[<<d, h>>]]]

Opposite(m) == [d \in Pos |-> [h \in Pos |-> IF d = h THEN 0 ELSE MaxScore - m[d][h]]]

\* the mask of a sentence of len tokens: the root position 0 is masked out
MaskOf(len) == [j \in Pos |-> j >= 1 /\ j <= len]

\* sc with every entry that touches a position beyond len set to fill
Repad(sc, len, fill) ==
    [d \in Pos |-> [h \in Pos |-> IF d > len \/ h > len THEN fill ELSE sc[d][h]]]

InitEisner ==
    /\ \E g \in [TokenArcs -> 0..MaxScore], r \in 0..MaxScore :
           scores = [b \in 1..BatchSize |->
                        IF b % 2 = 1 THEN Matrix(g, r) ELSE Opposite(Matrix(g, r))]
    /\ \E len \in [1..BatchSize -> 1..(SeqLen - 1)] :
           mask = [b \in 1..BatchSize |-> MaskOf(len[b])]
    /\ \E fill \in {-PadMag, PadMag} :
           padded = [b \in 1..BatchSize |-> Repad(scores[b], Lens(mask[b]), fill)]
    /\ predicts = <<>>
    /\ predicts2 = <<>>
    /\ epc = "start"
    /\ TreeIdle
    /\ KmeansIdle

\* one call eisner(scores, mask), and the same call on the re-padded scores
Decode ==
    /\ epc = "start"
    /\ predicts' = Eisner(scores, mask)
    /\ predicts2' = Eisner(padded, mask)
    /\ epc' = "done"
    /\ UNCHANGED <<scores, mask, padded, treeVars, kmeansVars>>

NextEisner == Decode

SpecEisner == InitEisner /\ [][NextEisner]_vars

(***************************************************************************)
(* Decoder claims                                                          *)
(***************************************************************************)
\* the single-rooted projective trees over nodes 0..len, as head arrays
\* with entry 0 fixed to 0
TreesOfLen ==
    Tab([len \in 1..(SeqLen - 1) |->
            {h \in [0..len -> 0..len] : h[0] = 0 /\ ProjectiveTree(h)}])

RECURSIVE TotalFrom(_, _, _)
\* the sum over tokens d..len of sc[d][h[d]]
TotalFrom(sc, h, d) ==
    IF d \notin DOMAIN h THEN 0 ELSE sc[d][h[d]] + TotalFrom(sc, h, d + 1)

Total(sc, h) == TotalFrom(sc, h, 1)

Dominates(sc, t) ==
    \A u \in TreesOfLen[Cardinality(DOMAIN t) - 1] : u # t => Total(sc, u) < Total(sc, t)

\* the first len+1 entries of a returned row
Prefix(row, len) == [j \in 0..len |-> row[j]]

\* C1: when one single-rooted projective tree has a total strictly above
\* every other, eisner returns that tree's heads for tokens 1..L.
C1_DecoderOptimal ==
    epc = "done" =>
        \A b \in DOMAIN scores :
            \A t \in TreesOfLen[Lens(mask[b])] :
                Dominates(scores[b], t) =>
                    \A d \in 1..Lens(mask[b]) : predicts[b][d] = t[d]

\* a full-length sentence whose strictly best tree has a leftward arc
C1_Witness ==
    /\ epc = "done"
    /\ \E b \in DOMAIN scores :
          /\ Lens(mask[b]) = SeqLen - 1
          /\ \E t \in TreesOfLen[SeqLen - 1] :
                /\ Dominates(scores[b], t)
                /\ \E d \in 1..(SeqLen - 1) : t[d] > d
                /\ \A d \in 1..(SeqLen - 1) : predicts[b][d] = t[d]

\* C2: the first L+1 entries of every returned row pass istree: heads in
\* 0..L, one root child, no cycle, no crossing arcs.
C2_DecoderValid ==
    epc = "done" =>
        \A b \in DOMAIN scores :
            LET h == Prefix(predicts[b], Lens(mask[b]))
            IN  /\ IsTree(h) = TRUE
                /\ ValidHeads(h)
                /\ ProjectiveTree(h)

\* a full-length sentence in which every token scores best under the root,
\* so that only the single-root constraint keeps the output a tree
C2_Witness ==
    /\ epc = "done"
    /\ \E b \in DOMAIN scores :
          /\ Lens(mask[b]) = SeqLen - 1
          /\ \A d \in 1..(SeqLen - 1) : \A h \in Pos :
                h # d => scores[b][d][h] = (IF h = 0 THEN MaxScore ELSE 0)
          /\ IsTree(Prefix(predicts[b], SeqLen - 1)) = TRUE

\* C3: two score tensors that agree on the entries among positions 0..L_b
\* give the same heads[0..L_b] for every sentence b.
C3_PaddingNonInterference ==
    epc = "done" =>
        \A b \in DOMAIN scores :
            Prefix(predicts[b], Lens(mask[b])) = Prefix(predicts2[b], Lens(mask[b]))

\* a batch of sentences of different lengths whose padding scores were
\* raised above every real score
C3_Witness ==
    /\ epc = "done"
    /\ \E b1, b2 \in DOMAIN scores : Lens(mask[b1]) < Lens(mask[b2])
    /\ \E b \in DOMAIN scores :
          /\ Lens(mask[b]) < SeqLen - 1
          /\ padded[b][SeqLen - 1][0] = PadMag
          /\ padded[b] # scores[b]
          /\ Prefix(predicts[b], Lens(mask[b])) = Prefix(predicts2[b], Lens(mask[b]))

(***************************************************************************)
(* Bucketer specification: every non-empty list of sentence lengths from   *)
(* Lengths in which at most MaxFreq sentences share a length; the list     *)
(* holds one sentence of every length, ascending, then the second sentence *)
(* of every repeated length, and so on.  Every k in 1..MaxK and every      *)
(* outcome of the random permutation.                                      *)
(***************************************************************************)
RECURSIVE LayersFrom(_, _)
LayersFrom(count, t) ==
    IF t > MaxFreq THEN <<>>
    ELSE SortedSeq({v \in DOMAIN count : count[v] >= t}) \o LayersFrom(count, t + 1)

LengthLists ==
    {Array(LayersFrom(count, 1)) :
        count \in {cnt \in [Lengths -> 0..MaxFreq] : \E v \in Lengths : cnt[v] > 0}}

\* np.random.permutation(n)[:kk]: the sequences of kk distinct indices
Selections(n, kk) ==
    {sel \in [0..(Min(n, kk) - 1) -> 0..(n-1)] :
        \A a, b \in DOMAIN sel : a # b => sel[a] # sel[b]}

InitKmeans ==
    /\ km_x = <<>>
    /\ kreq = 0
    /\ km_k = 0
    /\ km_d = <<>> /\ indices = <<>> /\ km_f = <<>>
    /\ km_c = <<>> /\ old = None /\ km_y = <<>> /\ kmask = <<>> /\ moved = {}
    /\ centroids = <<>> /\ clusters = <<>>
    /\ kpc = "start"
    /\ TreeIdle
    /\ EisnerIdle

\* kmeans(x, k), lines 61-72: the distinct values, the random initial
\* centroids, the first assignment, and the cap on km_k
KmeansStart ==
    /\ kpc = "start"
    /\ km_x' \in LengthLists
    /\ kreq' \in 1..MaxK
    /\ km_d' = UniqueD(km_x')
    /\ indices' = UniqueIndices(km_x')
    /\ km_f' = UniqueF(km_x')
    /\ \E sel \in Selections(Cardinality(DOMAIN km_d'), kreq') :
           km_c' = [i \in DOMAIN sel |-> <<km_d'[sel[i]], 1>>]
    /\ old' = None
    /\ km_y' = Assign(km_d', km_c')
    /\ km_k' = Min(Cardinality(DOMAIN km_d'), kreq')
    /\ kpc' = "loop"
    /\ moved' = {}
    /\ UNCHANGED <<kmask, centroids, clusters, treeVars, eisnerVars>>

\* lines 74-91: one iteration of the while loop
KmeansIterate ==
    /\ kpc = "loop"
    /\ ~Converged(km_c, old)
    /\ \E yr \in {Repair(km_d, km_c, km_y, km_y, 0, km_k)} :
           /\ kmask' = [i \in 0..(km_k-1) |-> Members(yr, i)]
           /\ moved' = moved \cup {j \in DOMAIN km_y : yr[j] # km_y[j]}
    /\ km_c' = Update(km_d, km_f, kmask')
    /\ old' = km_c
    /\ km_y' = Assign(km_d, km_c')
    /\ UNCHANGED <<km_x, kreq, km_k, km_d, indices, km_f, centroids, clusters, kpc,
                   treeVars, eisnerVars>>

\* lines 94-100: the assigned clusters and their centroids
KmeansReturn ==
    /\ kpc = "loop"
    /\ Converged(km_c, old)
    /\ \E assigned \in {Assigned(km_y, km_k)} :
           /\ centroids' = [n \in DOMAIN assigned |-> km_c[assigned[n]]]
           /\ clusters' = [n \in DOMAIN assigned |->
                               ClusterOf(km_x, indices, km_y, assigned[n])]
    /\ kpc' = "done"
    /\ UNCHANGED <<km_x, kreq, km_k, km_d, indices, km_f, km_c, old, km_y, kmask, moved,
                   treeVars, eisnerVars>>

NextKmeans == KmeansStart \/ KmeansIterate \/ KmeansReturn

SpecKmeans == InitKmeans /\ [][NextKmeans]_vars

\* the call runs to completion: a step that can be taken is taken
SpecKmeansFair == SpecKmeans /\ WF_vars(NextKmeans)

(***************************************************************************)
(* Bucketer claims                                                         *)
(***************************************************************************)
\* the sentences of returned cluster n
ClusterSet(n) == {clusters[n][m] : m \in DOMAIN clusters[n]}

\* the number of distinct lengths of the list x
NumDistinct(x) == Cardinality({x[j] : j \in DOMAIN x})

\* C5: when kmeans has returned, every index 0..len(x)-1 is in exactly one
\* returned cluster and is listed there once, the clusters hold nothing
\* but these indices, and sentences of the same length are in the same
\* cluster.
C5_BucketerPartition ==
    kpc = "done" =>
        /\ \A j \in DOMAIN km_x :
               Cardinality({n \in DOMAIN clusters : j \in ClusterSet(n)}) = 1
        /\ \A n \in DOMAIN clusters :
               /\ ClusterSet(n) \subseteq DOMAIN km_x
               /\ Cardinality(ClusterSet(n)) = Len(clusters[n])
        /\ \A j1, j2 \in DOMAIN km_x :
               km_x[j1] = km_x[j2] =>
                   \A n \in DOMAIN clusters : j1 \in ClusterSet(n) <=> j2 \in ClusterSet(n)

\* a returned result with several clusters for a list in which lengths repeat
C5_Witness ==
    /\ kpc = "done"
    /\ Len(clusters) = MaxK
    /\ NumDistinct(km_x) < Cardinality(DOMAIN km_x)
    /\ \E n \in DOMAIN clusters : Len(clusters[n]) >= 3

\* C6: kmeans returns exactly min(k, number of distinct lengths) clusters
\* and as many centroids, and every returned cluster has a member.
C6_BucketerCount ==
    kpc = "done" =>
        /\ Len(clusters) = Min(kreq, NumDistinct(km_x))
        /\ Len(centroids) = Len(clusters)
        /\ \A n \in DOMAIN clusters : Len(clusters[n]) >= 1

\* a call in which a repair pass moved a length, returned with all the
\* clusters that were asked for
C6_Witness ==
    /\ kpc = "done"
    /\ moved # {}
    /\ kreq < NumDistinct(km_x)
    /\ Len(clusters) = kreq

\* C8: the loop ends: every call of kmeans returns.
C8_BucketerTerminates == <>(kpc = "done")

\* a call that returned, on centroids equal to the previous ones, after a
\* repair pass had moved a length
C8_Witness ==
    /\ kpc = "done"
    /\ moved # {}
    /\ SameCentroids(km_c, old)

\* C9: after the repair pass of every iteration each of the km_k clusters
\* has a distinct length assigned, and no updated centroid is the
\* quotient 0/0.
C9_RepairLeavesNoClusterEmpty ==
    kmask # <<>> =>
        /\ DOMAIN kmask = 0..(Min(kreq, NumDistinct(km_x)) - 1)
        /\ \A i \in DOMAIN kmask : kmask[i] # {} /\ ~IsNan(km_c[i])

\* the state after an iteration whose repair pass moved a length into an
\* empty cluster
C9_Witness ==
    /\ kpc = "loop"
    /\ moved # {}
    /\ \E j \in moved : \E i \in DOMAIN kmask : kmask[i] = {j}
    /\ \A i \in DOMAIN kmask : kmask[i] # {}

====
